---- MODULE Spec2Model ----
(***************************************************************************)
(* A model of the FABRIE back-office API: the order payload normalizer and *)
(* the order endpoints (orders/views.py, orders/serializers.py,            *)
(* orders/models.py) and the finance endpoints and report                  *)
(* (finance/views.py, finance/models.py).                                  *)
(*                                                                         *)
(* Python values are tagged records [t |-> type, v |-> value]; a Python    *)
(* str is a sequence of one-character strings, so that strip(), lower(),   *)
(* int() and json.loads() are computed on the characters.                  *)
(***************************************************************************)
EXTENDS Integers, Sequences, FiniteSets, TLC

VARIABLES
    n_in,          \* normalizer under test: the request data handed to it
    n_out,         \* normalizer under test: its outcome, or "not called"
    orders,        \* the orders table: product_id -> stored Order row
    req,           \* the last order request received
    resp,          \* the response to it
    categories,    \* the categories table: id -> row
    transactions,  \* the transactions table: id -> row
    clock,         \* index of the current day in Calendar
    freq,          \* the last finance request received
    fresp,         \* the response to it
    range_in,      \* parse_date_range under test: its two arguments
    range_out,     \* parse_date_range under test: its outcome, or "not called"
    creations      \* concurrent order creations: worker -> how far its request has got

vars == <<n_in, n_out, orders, req, resp, categories, transactions, clock, freq, fresp,
          range_in, range_out, creations>>
orderVars == <<orders, req, resp>>
normVars == <<n_in, n_out>>
financeVars == <<categories, transactions, clock, freq, fresp>>
rangeVars == <<range_in, range_out>>
raceVars == <<creations>>

(***************************************************************************)
(* Python values                                                           *)
(***************************************************************************)
PyNone == [t |-> "NoneType", v |-> 0]
PyBool(b) == [t |-> "bool", v |-> b]
PyInt(n) == [t |-> "int", v |-> n]
PyFloat(x) == [t |-> "float", v |-> x]     \* only the specials "inf", "-inf", "nan"
PyStr(s) == [t |-> "str", v |-> s]
PyList(xs) == [t |-> "list", v |-> xs]
PyDict(f) == [t |-> "dict", v |-> f]

EmptyMap == [k \in {} |-> PyNone]

\* bool(x)
Truthy(x) ==
    CASE x.t = "NoneType" -> FALSE
      [] x.t = "bool" -> x.v
      [] x.t = "int" -> x.v # 0
      [] x.t = "float" -> TRUE
      [] x.t = "str" -> Len(x.v) > 0
      [] x.t = "list" -> Len(x.v) > 0
      [] x.t = "dict" -> DOMAIN x.v # {}

\* x == y for Python values of possibly different types (True == 1 is not needed here:
\* the comparisons of the code are against None and str constants)
PyEq(x, y) == x.t = y.t /\ x.v = y.v

Put(f, k, x) == [j \in DOMAIN f \cup {k} |-> IF j = k THEN x ELSE f[j]]

(***************************************************************************)
(* str methods                                                             *)
(***************************************************************************)
IsSpace(c) == c \in {" ", "\t", "\n"}

RECURSIVE lstrip(_)
lstrip(s) == IF Len(s) > 0 /\ IsSpace(Head(s)) THEN lstrip(Tail(s)) ELSE s

RECURSIVE rstrip(_)
rstrip(s) == IF Len(s) > 0 /\ IsSpace(s[Len(s)]) THEN rstrip(SubSeq(s, 1, Len(s) - 1)) ELSE s

strip(s) == rstrip(lstrip(s))

UpperCase == <<"A","B","C","D","E","F","G","H","I","J","K","L","M",
               "N","O","P","Q","R","S","T","U","V","W","X","Y","Z">>
LowerCase == <<"a","b","c","d","e","f","g","h","i","j","k","l","m",
               "n","o","p","q","r","s","t","u","v","w","x","y","z">>

LowerChar(c) ==
    IF \E i \in 1..Len(UpperCase) : UpperCase[i] = c
    THEN LowerCase[CHOOSE i \in 1..Len(UpperCase) : UpperCase[i] = c]
    ELSE c

lower(s) == [i \in 1..Len(s) |-> LowerChar(s[i])]

Digits == <<"0","1","2","3","4","5","6","7","8","9">>
IsDigit(c) == \E i \in 1..10 : Digits[i] = c
DigitVal(c) == (CHOOSE i \in 1..10 : Digits[i] = c) - 1
AllDigits(s) == Len(s) > 0 /\ \A i \in 1..Len(s) : IsDigit(s[i])

RECURSIVE DecimalValue(_)
DecimalValue(s) ==
    IF Len(s) = 0 THEN 0
    ELSE 10 * DecimalValue(SubSeq(s, 1, Len(s) - 1)) + DigitVal(s[Len(s)])

\* int(s) for a str: surrounding whitespace and a sign are accepted, then digits only;
\* anything else is a ValueError
int_of_str(s) ==
    LET u == strip(s)
        signed == Len(u) > 0 /\ u[1] \in {"-", "+"}
        body == IF signed THEN Tail(u) ELSE u
    IN  IF AllDigits(body)
        THEN [ok |-> TRUE, exc |-> "", v |-> IF signed /\ u[1] = "-" THEN 0 - DecimalValue(body)
                                                                  ELSE DecimalValue(body)]
        ELSE [ok |-> FALSE, exc |-> "ValueError", v |-> 0]

\* int(x) for any value
int(x) ==
    CASE x.t = "int" -> [ok |-> TRUE, exc |-> "", v |-> x.v]
      [] x.t = "bool" -> [ok |-> TRUE, exc |-> "", v |-> IF x.v THEN 1 ELSE 0]
      [] x.t = "str" -> int_of_str(x.v)
      [] x.t = "float" -> IF x.v = "nan" THEN [ok |-> FALSE, exc |-> "ValueError", v |-> 0]
                                         ELSE [ok |-> FALSE, exc |-> "OverflowError", v |-> 0]
      [] OTHER -> [ok |-> FALSE, exc |-> "TypeError", v |-> 0]

(***************************************************************************)
(* json.loads, on the JSON subset written with the characters of the       *)
(* sample inputs: objects, arrays, strings without escapes, integers,      *)
(* null, true, false and the non-finite literals Python accepts.           *)
(***************************************************************************)
Quote == "\""
JsonPunct == {"{", "}", "[", "]", ":", ","}
IsDelimiter(c) == IsSpace(c) \/ c \in JsonPunct \/ c = Quote

ClosingQuote(s, i) ==
    IF \E j \in (i + 1)..Len(s) : s[j] = Quote
    THEN CHOOSE j \in (i + 1)..Len(s) : s[j] = Quote /\ \A k \in (i + 1)..(j - 1) : s[k] # Quote
    ELSE 0

LiteralEnd(s, i) ==
    CHOOSE j \in i..Len(s) :
        /\ \A k \in i..j : ~IsDelimiter(s[k])
        /\ (j = Len(s) \/ IsDelimiter(s[j + 1]))

Token(kind, text) == [k |-> kind, v |-> text]

RECURSIVE Lex(_, _)
Lex(s, i) ==
    IF i > Len(s) THEN <<>>
    ELSE IF IsSpace(s[i]) THEN Lex(s, i + 1)
    ELSE IF s[i] \in JsonPunct THEN <<Token("punct", <<s[i]>>)>> \o Lex(s, i + 1)
    ELSE IF s[i] = Quote
         THEN IF ClosingQuote(s, i) = 0
              THEN <<Token("bad", <<>>)>>
              ELSE <<Token("string", SubSeq(s, i + 1, ClosingQuote(s, i) - 1))>>
                       \o Lex(s, ClosingQuote(s, i) + 1)
    ELSE <<Token("literal", SubSeq(s, i, LiteralEnd(s, i)))>> \o Lex(s, LiteralEnd(s, i) + 1)

IsJsonInt(v) ==
    LET body == IF v[1] = "-" THEN Tail(v) ELSE v
    IN  AllDigits(body) /\ (Len(body) = 1 \/ body[1] # "0")

JsonIntValue(v) == IF v[1] = "-" THEN 0 - DecimalValue(Tail(v)) ELSE DecimalValue(v)

ParseFail == [ok |-> FALSE, val |-> PyNone, next |-> 0]
ParseOk(x, n) == [ok |-> TRUE, val |-> x, next |-> n]

IsPunct(toks, i, c) == i <= Len(toks) /\ toks[i].k = "punct" /\ toks[i].v = <<c>>

ParseLiteral(v, n) ==
    CASE v = <<"n","u","l","l">> -> ParseOk(PyNone, n)
      [] v = <<"t","r","u","e">> -> ParseOk(PyBool(TRUE), n)
      [] v = <<"f","a","l","s","e">> -> ParseOk(PyBool(FALSE), n)
      [] v = <<"I","n","f","i","n","i","t","y">> -> ParseOk(PyFloat("inf"), n)
      [] v = <<"-","I","n","f","i","n","i","t","y">> -> ParseOk(PyFloat("-inf"), n)
      [] v = <<"N","a","N">> -> ParseOk(PyFloat("nan"), n)
      [] OTHER -> IF IsJsonInt(v) THEN ParseOk(PyInt(JsonIntValue(v)), n) ELSE ParseFail

RECURSIVE ParseValue(_, _), ParseMembers(_, _, _), ParseElements(_, _, _)

ParseValue(toks, i) ==
    IF i > Len(toks) THEN ParseFail
    ELSE CASE toks[i].k = "string" -> ParseOk(PyStr(toks[i].v), i + 1)
           [] toks[i].k = "literal" -> ParseLiteral(toks[i].v, i + 1)
           [] IsPunct(toks, i, "{") ->
                IF IsPunct(toks, i + 1, "}") THEN ParseOk(PyDict(EmptyMap), i + 2)
                ELSE ParseMembers(toks, i + 1, EmptyMap)
           [] IsPunct(toks, i, "[") ->
                IF IsPunct(toks, i + 1, "]") THEN ParseOk(PyList(<<>>), i + 2)
                ELSE ParseElements(toks, i + 1, <<>>)
           [] OTHER -> ParseFail

\* "key": value pairs up to the closing brace; a repeated key keeps its last value
ParseMembers(toks, i, acc) ==
    IF i > Len(toks) \/ toks[i].k # "string" \/ ~IsPunct(toks, i + 1, ":") THEN ParseFail
    ELSE LET r == ParseValue(toks, i + 2)
         IN  IF ~r.ok THEN ParseFail
             ELSE IF IsPunct(toks, r.next, ",")
                  THEN ParseMembers(toks, r.next + 1, Put(acc, toks[i].v, r.val))
             ELSE IF IsPunct(toks, r.next, "}")
                  THEN ParseOk(PyDict(Put(acc, toks[i].v, r.val)), r.next + 1)
             ELSE ParseFail

ParseElements(toks, i, acc) ==
    LET r == ParseValue(toks, i)
    IN  IF ~r.ok THEN ParseFail
        ELSE IF IsPunct(toks, r.next, ",") THEN ParseElements(toks, r.next + 1, Append(acc, r.val))
        ELSE IF IsPunct(toks, r.next, "]") THEN ParseOk(PyList(Append(acc, r.val)), r.next + 1)
        ELSE ParseFail

\* json.loads(s): the value, or JSONDecodeError
json_loads(s) ==
    LET toks == Lex(s, 1)
        r == ParseValue(toks, 1)
    IN  IF \E i \in 1..Len(toks) : toks[i].k = "bad" THEN [ok |-> FALSE, val |-> PyNone]
        ELSE IF r.ok /\ r.next = Len(toks) + 1 THEN [ok |-> TRUE, val |-> r.val]
        ELSE [ok |-> FALSE, val |-> PyNone]


(***************************************************************************)
(* orders/views.py: normalize_request_data                                 *)
(*                                                                         *)
(* request.data is a QueryDict (form-encoded or multipart body: every key  *)
(* holds a list of str) or a plain dict (JSON body: typed values).         *)
(***************************************************************************)
QueryDict(lists) == [cls |-> "QueryDict", items |-> lists]
JsonBody(items) == [cls |-> "dict", items |-> items]

\* hasattr(obj, name) for the two classes request.data can be
HasAttr(obj, name) ==
    CASE obj.cls = "QueryDict" -> name \in {"getlist", "dict", "get", "keys"}
      [] obj.cls = "dict" -> name \in {"get", "keys", "copy", "items"}

\* QueryDict.get(key): the last value of the key's list, None when there is none
QueryDict_get(q, key) ==
    IF key \notin DOMAIN q \/ Len(q[key]) = 0 THEN PyNone ELSE PyStr(q[key][Len(q[key])])

\* QueryDict.get(key) in the place of getlist: the last value only
QueryDict_getlist_last(q, key) ==
    IF key \in DOMAIN q /\ Len(q[key]) > 0 THEN <<q[key][Len(q[key])]>> ELSE <<>>

\* QueryDict.getlist(key)
QueryDict_getlist(q, key) == IF key \in DOMAIN q THEN q[key] ELSE <<>>

s_null == <<"n","u","l","l">>
s_undefined == <<"u","n","d","e","f","i","n","e","d">>

\* value in [None, '', 'null', 'undefined']
IsBlankValue(x) == x.t = "NoneType" \/ (x.t = "str" /\ x.v \in {<<>>, s_null, s_undefined})

Raise(e) == [ok |-> FALSE, exc |-> e, data |-> EmptyMap]
Return(d) == [ok |-> TRUE, exc |-> "", data |-> d]

Get(data, key, default) == IF key \in DOMAIN data THEN data[key] ELSE default

\* the FormData branch: the loop over request_data.keys()
CopyFormData(q) ==
    LET kept == {k \in DOMAIN q : k \in {"size", "colours"} \/ ~IsBlankValue(QueryDict_get(q, k))}
    IN  [k \in kept |->
            IF k \in {"size", "colours"}
            THEN PyList([i \in 1..Len(SelectSeq(QueryDict_getlist(q, k), LAMBDA v : Len(strip(v)) > 0))
                            |-> PyStr(SelectSeq(QueryDict_getlist(q, k), LAMBDA v : Len(strip(v)) > 0)[i])])
            ELSE QueryDict_get(q, k)]

\* size_quantities as first read: json.loads of a str, {} when it does not decode
RawSizeQuantities(data) ==
    LET raw_sq == Get(data, "size_quantities", PyDict(EmptyMap))
    IN  IF raw_sq.t = "str"
        THEN IF json_loads(raw_sq.v).ok THEN json_loads(raw_sq.v).val ELSE PyDict(EmptyMap)
        ELSE raw_sq

\* one value of clean_sq; an exception other than TypeError and ValueError leaves the loop
CleanQuantity(v) ==
    IF IsBlankValue(v) THEN [ok |-> TRUE, exc |-> "", val |-> PyNone]
    ELSE IF int(v).ok THEN [ok |-> TRUE, exc |-> "", val |-> PyInt(int(v).v)]
    ELSE IF int(v).exc \in {"TypeError", "ValueError"} THEN [ok |-> TRUE, exc |-> "", val |-> PyNone]
    ELSE [ok |-> FALSE, exc |-> int(v).exc, val |-> PyNone]

\* the loop "for k, v in (raw_sq or {}).items()"
CleanSizeQuantities(raw_sq) ==
    LET src == IF Truthy(raw_sq) THEN raw_sq ELSE PyDict(EmptyMap)
    IN  IF src.t # "dict" THEN [ok |-> FALSE, exc |-> "AttributeError", val |-> PyNone]
        ELSE IF \E k \in DOMAIN src.v : ~CleanQuantity(src.v[k]).ok
        THEN [ok |-> FALSE,
              exc |-> CleanQuantity(src.v[CHOOSE k \in DOMAIN src.v : ~CleanQuantity(src.v[k]).ok]).exc,
              val |-> PyNone]
        ELSE [ok |-> TRUE, exc |-> "", val |-> PyDict([k \in DOMAIN src.v |-> CleanQuantity(src.v[k]).val])]

TrueWords == {<<"t","r","u","e">>, <<"1">>, <<"y","e","s">>, <<"o","n">>}

\* the comparison without is_set.lower()
CoerceIsSet_case_sensitive(data) ==
    LET is_set == Get(data, "is_set", PyBool(FALSE))
    IN  IF is_set.t = "str" THEN PyBool(is_set.v \in TrueWords) ELSE PyBool(Truthy(is_set))

CoerceIsSet(data) ==
    LET is_set == Get(data, "is_set", PyBool(FALSE))
    IN  IF is_set.t = "str" THEN PyBool(lower(is_set.v) \in TrueWords) ELSE PyBool(Truthy(is_set))

\* the same with 0 as the fallback of every key
CoerceInt_zero_fallback(data, key, default) ==
    LET r == int(Get(data, key, PyInt(default)))
    IN  IF r.ok THEN [ok |-> TRUE, exc |-> "", val |-> PyInt(r.v)]
        ELSE IF r.exc \in {"TypeError", "ValueError"} THEN [ok |-> TRUE, exc |-> "", val |-> PyInt(0)]
        ELSE [ok |-> FALSE, exc |-> r.exc, val |-> PyNone]

\* try: int(data.get(key, default)) except (TypeError, ValueError): default
CoerceInt(data, key, default) ==
    LET r == int(Get(data, key, PyInt(default)))
    IN  IF r.ok THEN [ok |-> TRUE, exc |-> "", val |-> PyInt(r.v)]
        ELSE IF r.exc \in {"TypeError", "ValueError"} THEN [ok |-> TRUE, exc |-> "", val |-> PyInt(default)]
        ELSE [ok |-> FALSE, exc |-> r.exc, val |-> PyNone]

\* "if key not in data or not isinstance(data[key], list): data[key] = []", then
\* "[s for s in data[key] if s and s.strip()]"; s.strip() needs a str
CleanArray(data, key) ==
    LET xs == IF key \in DOMAIN data /\ data[key].t = "list" THEN data[key].v ELSE <<>>
    IN  IF \E i \in 1..Len(xs) : Truthy(xs[i]) /\ xs[i].t # "str"
        THEN [ok |-> FALSE, exc |-> "AttributeError", val |-> PyNone]
        ELSE [ok |-> TRUE, exc |-> "",
              val |-> PyList(SelectSeq(xs, LAMBDA x : Truthy(x) /\ Len(strip(x.v)) > 0))]

normalize_request_data(request_data) ==
    IF ~HasAttr(request_data, "getlist") /\ ~HasAttr(request_data, "dict")
    THEN Raise("AttributeError")       \* request_data.dict() on a plain dict
    ELSE
    LET data == IF HasAttr(request_data, "getlist") THEN CopyFormData(request_data.items)
                ELSE request_data.items
        sq == CleanSizeQuantities(RawSizeQuantities(data))
        mult == CoerceInt(data, "set_multiplier", 1)
        qty == CoerceInt(data, "quantity", 0)
        size == CleanArray(data, "size")
        colours == CleanArray(data, "colours")
    IN  IF ~sq.ok THEN Raise(sq.exc)
        ELSE IF ~mult.ok THEN Raise(mult.exc)
        ELSE IF ~qty.ok THEN Raise(qty.exc)
        ELSE IF ~size.ok THEN Raise(size.exc)
        ELSE IF ~colours.ok THEN Raise(colours.exc)
        ELSE Return([k \in DOMAIN data \cup {"size_quantities", "is_set", "set_multiplier",
                                             "quantity", "size", "colours"} |->
                CASE k = "size_quantities" -> sq.val
                  [] k = "is_set" -> CoerceIsSet(data)
                  [] k = "set_multiplier" -> mult.val
                  [] k = "quantity" -> qty.val
                  [] k = "size" -> size.val
                  [] k = "colours" -> colours.val
                  [] OTHER -> data[k]])


(***************************************************************************)
(* Sample request values                                                   *)
(***************************************************************************)
sq_empty_object == <<"{","}">>    \* {}
sq_S2 == <<"{","\"","S","\"",":","2","}">>    \* {"S":2}
sq_S2_Mnull == <<"{","\"","S","\"",":","2",",","\"","M","\"",":","n","u","l","l","}">>    \* {"S":2,"M":null}
sq_S_str3 == <<"{","\"","S","\"",":","\"","3","\"","}">>    \* {"S":"3"}
sq_S_strx == <<"{","\"","S","\"",":","\"","x","\"","}">>    \* {"S":"x"}
sq_XS1 == <<"{","\"","X","S","\"",":","1","}">>    \* {"XS":1}
sq_Sneg1_M3 == <<"{","\"","S","\"",":","-","1",",","\"","M","\"",":","3","}">>    \* {"S":-1,"M":3}
sq_truncated == <<"{","\"","S","\"",":">>    \* {"S":
sq_array == <<"[","1","]">>    \* [1]
sq_number == <<"5">>    \* 5
sq_zero == <<"0">>    \* 0
sq_S_inf == <<"{","\"","S","\"",":","I","n","f","i","n","i","t","y","}">>    \* {"S":Infinity}
sq_S_list == <<"{","\"","S","\"",":","[","1","]","}">>    \* {"S":[1]}
s_true == <<"t","r","u","e">>
s_Yes == <<"Y","e","s">>
s_false == <<"f","a","l","s","e">>
s_S == <<"S">>
s_M == <<"M">>
s_XS == <<"X","S">>
s_S_padded == <<" ","S"," ">>
s_blank == <<" "," ">>
s_red == <<"r","e","d">>
s_blue_padded == <<" ","b","l","u","e"," ">>
s_2 == <<"2">>
s_0 == <<"0">>
s_3_padded == <<" ","3"," ">>
s_x == <<"x">>
s_7 == <<"7">>
s_neg1 == <<"-","1">>
s_Delivered == <<"D","e","l","i","v","e","r","e","d">>
s_Pending == <<"P","e","n","d","i","n","g">>
s_Acme == <<"A","c","m","e">>
s_Shirt == <<"S","h","i","r","t">>

Absent == [present |-> FALSE, vals |-> <<>>]
One(s) == [present |-> TRUE, vals |-> <<s>>]
Many(ss) == [present |-> TRUE, vals |-> ss]

\* the QueryDict holding the keys chosen present
FormOf(opts) == QueryDict([k \in {j \in DOMAIN opts : opts[j].present} |-> opts[k].vals])

SizeQuantityTexts ==
    {<<>>, s_null, sq_empty_object, sq_S2, sq_S2_Mnull, sq_S_str3, sq_S_strx, sq_XS1,
     sq_Sneg1_M3, sq_truncated, sq_array, sq_number, sq_zero, sq_S_inf, sq_S_list}

NormalizerForms ==
    { FormOf([size |-> sz, colours |-> co, size_quantities |-> sq, is_set |-> st,
              set_multiplier |-> mu, quantity |-> qt, status |-> ss]) :
        sz \in {Absent, One(s_S), Many(<<s_S_padded, <<>>, s_M>>), Many(<<s_blank>>)},
        co \in {Absent, Many(<<s_red, s_blue_padded>>), One(s_blank)},
        sq \in {Absent} \cup {One(t) : t \in SizeQuantityTexts},
        st \in {Absent, One(s_true), One(s_Yes), One(s_0)},
        mu \in {Absent, One(s_2), One(s_3_padded), One(s_x)},
        qt \in {Absent, One(s_7), One(s_x)},
        ss \in {Absent, One(s_Delivered), One(s_null)} }

\* bodies decoded from JSON: typed values
NormalizerJsonBodies ==
    { JsonBody(EmptyMap),
      JsonBody([status |-> PyStr(s_Delivered)]),
      JsonBody([size |-> PyList(<<PyStr(s_S)>>),
                size_quantities |-> PyDict([k \in {s_S} |-> PyInt(2)]),
                is_set |-> PyBool(TRUE), set_multiplier |-> PyInt(2), quantity |-> PyInt(7)]),
      JsonBody([size_quantities |-> PyStr(sq_S2), set_multiplier |-> PyStr(s_2)]) }

(***************************************************************************)
(* The normalizer as a function under test                                 *)
(***************************************************************************)
NotCalled == [ok |-> FALSE, exc |-> "not called", data |-> EmptyMap]
Called == n_out.exc # "not called"

Idle == QueryDict([k \in {} |-> <<>>])

NormInit ==
    /\ \/ n_in \in NormalizerForms
       \/ n_in \in NormalizerJsonBodies
    /\ n_out = NotCalled

Normalize ==
    /\ ~Called
    /\ n_out' = normalize_request_data(n_in)
    /\ UNCHANGED n_in


(***************************************************************************)
(* orders/models.py: Order, and orders/serializers.py: OrderSerializer     *)
(*                                                                         *)
(* The fields kept are those the normalizer and save() read or write, the  *)
(* two required names and status; the remaining optional columns (image,   *)
(* fabric, description, dates) take no part in either.                     *)
(***************************************************************************)
SIZE_CHOICES == {<<"S">>, <<"M">>, <<"L">>, <<"X","L">>, <<"2","X","L">>, <<"3","X","L">>}
STATUS_CHOICES ==
    {<<"P","e","n","d","i","n","g">>,
     <<"c","u","t","t","i","n","g">>,
     <<"s","t","i","t","c","h","i","n","g">>,
     <<"f","i","n","i","s","h","i","n","g">>,
     <<"R","e","a","d","y"," ","f","o","r"," ","D","e","l","i","v","e","r","y">>,
     <<"D","e","l","i","v","e","r","e","d">>,
     <<"C","a","n","c","e","l","l","e","d">>}

\* sum of the values of a dict of ints, None counted as 0 by both callers
RECURSIVE SumQuantities(_)
SumQuantities(f) ==
    IF DOMAIN f = {} THEN 0
    ELSE LET k == CHOOSE j \in DOMAIN f : TRUE
             rest == [j \in DOMAIN f \ {k} |-> f[j]]
         IN  (IF f[k].t = "int" THEN f[k].v ELSE 0) + SumQuantities(rest)

\* OrderSerializer.validate_size_quantities: TRUE when the value passes
validate_size_quantities(value) ==
    IF DOMAIN value # {} THEN \A size \in DOMAIN value : size \in SIZE_CHOICES ELSE TRUE

RECURSIVE SplitComma(_)
SplitComma(s) ==
    IF \E i \in 1..Len(s) : s[i] = ","
    THEN LET i == CHOOSE j \in 1..Len(s) : s[j] = "," /\ \A k \in 1..(j - 1) : s[k] # ","
         IN  <<SubSeq(s, 1, i - 1)>> \o SplitComma(SubSeq(s, i + 1, Len(s)))
    ELSE <<s>>

\* OrderSerializer.to_internal_value, the part before super(): a str size_quantities is
\* decoded, a str colours is split
to_internal_value(data) ==
    LET sq_is_str == "size_quantities" \in DOMAIN data /\ data["size_quantities"].t = "str"
        co_is_str == "colours" \in DOMAIN data /\ data["colours"].t = "str"
        colours == IF ~co_is_str THEN PyNone
                   ELSE IF \E i \in 1..Len(data["colours"].v) : data["colours"].v[i] = ","
                   THEN PyList([i \in 1..Len(SelectSeq(SplitComma(data["colours"].v),
                                                       LAMBDA c : Len(strip(c)) > 0)) |->
                                  PyStr(strip(SelectSeq(SplitComma(data["colours"].v),
                                                        LAMBDA c : Len(strip(c)) > 0)[i]))])
                   ELSE IF Len(data["colours"].v) > 0 THEN PyList(<<data["colours"]>>)
                   ELSE PyList(<<>>)
    IN  IF sq_is_str /\ ~json_loads(data["size_quantities"].v).ok
        THEN [ok |-> FALSE, data |-> data]
        ELSE [ok |-> TRUE,
              data |-> [k \in DOMAIN data |->
                          IF k = "size_quantities" /\ sq_is_str
                          THEN json_loads(data["size_quantities"].v).val
                          ELSE IF k = "colours" /\ co_is_str THEN colours
                          ELSE data[k]]]

IsText(x) == x.t = "str" /\ Len(strip(x.v)) > 0

\* the fields of OrderSerializer whose value is refused, on the data to_internal_value
\* hands to the field validators; a field left out is refused only when it is required
FieldErrors(data, partial) ==
    {f \in {"customer_name", "product_name"} :
        IF f \in DOMAIN data THEN ~IsText(data[f]) ELSE ~partial}
    \cup {f \in {"status"} \cap DOMAIN data :
            ~(data[f].t = "str" /\ data[f].v \in STATUS_CHOICES)}
    \cup {f \in {"size"} \cap DOMAIN data :
            ~(data[f].t = "list" /\ \A i \in 1..Len(data[f].v) :
                  data[f].v[i].t = "str" /\ data[f].v[i].v \in SIZE_CHOICES)}
    \cup {f \in {"colours"} \cap DOMAIN data :
            ~(data[f].t = "list" /\ \A i \in 1..Len(data[f].v) : IsText(data[f].v[i]))}
    \cup {f \in {"size_quantities"} \cap DOMAIN data :
            ~(/\ data[f].t = "dict"
              /\ \A k \in DOMAIN data[f].v : data[f].v[k].t \in {"int", "NoneType"}
              /\ validate_size_quantities(data[f].v))}
    \cup {f \in {"is_set"} \cap DOMAIN data : data[f].t # "bool"}
    \cup {f \in {"set_multiplier"} \cap DOMAIN data : ~(data[f].t = "int" /\ data[f].v >= 1)}
    \cup {f \in {"quantity"} \cap DOMAIN data : ~(data[f].t = "int" /\ data[f].v >= 0)}

SerializerFields ==
    {"customer_name", "product_name", "status", "size", "colours", "size_quantities",
     "is_set", "set_multiplier", "quantity"}

\* serializer.is_valid(): the errors by field, or validated_data (CharField trims
\* its value; the declared defaults fill what a full update or a create leaves out)
is_valid(payload, partial) ==
    LET pre == to_internal_value(payload)
        data == pre.data
        errors == IF pre.ok THEN FieldErrors(data, partial) ELSE {"size_quantities"}
        defaults == [is_set |-> PyBool(FALSE), set_multiplier |-> PyInt(1), size |-> PyList(<<>>),
                     size_quantities |-> PyDict(EmptyMap), colours |-> PyList(<<>>)]
        given == DOMAIN data \cap SerializerFields
        keys == IF partial THEN given ELSE given \cup DOMAIN defaults
    IN  [ok |-> errors = {},
         errors |-> errors,
         validated_data |->
            IF errors # {} THEN EmptyMap
            ELSE [k \in keys |->
                    IF k \notin given THEN defaults[k]
                    ELSE IF k \in {"customer_name", "product_name"} THEN PyStr(strip(data[k].v))
                    ELSE IF k = "colours"
                    THEN PyList([i \in 1..Len(data[k].v) |-> PyStr(strip(data[k].v[i].v))])
                    ELSE data[k]]]

\* a new Order instance: the column defaults of models.py
OrderDefaults ==
    [customer_name |-> PyStr(<<>>), product_name |-> PyStr(<<>>), status |-> PyStr(<<"P","e","n","d","i","n","g">>),
     size |-> PyList(<<>>), colours |-> PyList(<<>>), size_quantities |-> PyDict(EmptyMap),
     is_set |-> PyBool(FALSE), set_multiplier |-> PyInt(1), quantity |-> PyInt(1)]

\* setattr(instance, attr, value) for every validated attribute
SetAttrs(instance, validated_data) ==
    [f \in DOMAIN instance |-> IF f \in DOMAIN validated_data THEN validated_data[f] ELSE instance[f]]

\* Order.save without the set multiplier
Order_save_unmultiplied(self) ==
    [self EXCEPT !.quantity = IF self.size_quantities.t = "dict"
                              THEN PyInt(SumQuantities(self.size_quantities.v)) ELSE self.quantity]

\* Order.save, up to super().save(): quantity recomputed from size_quantities
Order_save(self) ==
    LET sq == IF self.size_quantities.t = "str"
              THEN IF json_loads(self.size_quantities.v).ok
                   THEN json_loads(self.size_quantities.v).val ELSE PyDict(EmptyMap)
              ELSE self.size_quantities
        total == IF sq.t = "dict" THEN PyInt(SumQuantities(sq.v)) ELSE self.quantity
        quantity == IF self.is_set.v THEN PyInt(total.v * self.set_multiplier.v) ELSE total
    IN  [self EXCEPT !.size_quantities = sq, !.quantity = quantity]

\* the CHECK constraints of the two PositiveIntegerField columns
RowAccepted(row) == row.quantity.v >= 0 /\ row.set_multiplier.v >= 0

\* OrderSerializer.create: quantity precomputed from a non-empty size_quantities,
\* then Order.objects.create(**validated_data), which builds the instance
serializer_create(validated_data) ==
    LET size_quantities == Get(validated_data, "size_quantities", PyDict(EmptyMap))
        vd == IF Truthy(size_quantities)
              THEN Put(validated_data, "quantity", PyInt(SumQuantities(size_quantities.v)))
              ELSE validated_data
    IN  SetAttrs(OrderDefaults, vd)


(***************************************************************************)
(* orders/views.py: the order endpoints                                    *)
(***************************************************************************)
\* the codes generate_product_id can draw: two of the 36^5, so that the table can fill
ProductIds == {"K7Q2M", "ZX19B"}

sq_Sneg1 == <<"{","\"","S","\"",":","-","1","}">>    \* {"S":-1}

NoTable == [id \in {} |-> OrderDefaults]
NoRequest == [method |-> "", pk |-> "", body |-> Idle]
Waiting == req.method = ""       \* no order request is being answered
NoResponse == [status |-> 0, exc |-> "", fields |-> {}]

Response(status, exc, fields) == [status |-> status, exc |-> exc, fields |-> fields]

\* bodies of form-encoded requests: an order with or without its required names, with
\* a size_quantities text, as a set (with its size and colour lists) or not, with or
\* without a client-side quantity; and two bodies that carry a status
ApiForms ==
    { FormOf([customer_name |-> IF named THEN One(s_Acme) ELSE Absent,
              product_name |-> IF named THEN One(s_Shirt) ELSE Absent,
              size |-> set[3], colours |-> set[4],
              size_quantities |-> sq, is_set |-> set[1], set_multiplier |-> set[2],
              quantity |-> qt]) :
        named \in BOOLEAN,
        sq \in {Absent, One(sq_S2_Mnull), One(sq_XS1), One(sq_Sneg1_M3), One(sq_Sneg1), One(sq_array)},
        set \in {<<Absent, Absent, Absent, Absent>>,
                 <<One(s_true), One(s_2), One(s_S), One(s_blue_padded)>>,
                 <<One(s_true), One(s_0), One(s_S), One(s_blue_padded)>>},
        qt \in {Absent, One(s_7)} }
    \cup { FormOf([status |-> One(s_Delivered)]),
           FormOf([status |-> One(s_Delivered), size_quantities |-> One(sq_XS1)]) }

\* bodies of JSON requests
ApiJsonBodies ==
    { JsonBody([customer_name |-> PyStr(s_Acme), product_name |-> PyStr(s_Shirt),
                size_quantities |-> PyDict([k \in {s_S} |-> PyInt(2)])]),
      JsonBody([customer_name |-> PyStr(s_Acme), product_name |-> PyStr(s_Shirt),
                size_quantities |-> PyDict([k \in {s_XS} |-> PyInt(1)])]) }

\* generate_product_id: a drawn code no stored order has (the loop draws again otherwise)
generate_product_id(new_id) == new_id \in ProductIds /\ new_id \notin DOMAIN orders

\* what serializer.is_valid answers when it is not reached
NotValidated == [ok |-> FALSE, errors |-> {}, validated_data |-> EmptyMap]

\* OrderListCreateView.create: every exception is answered 400
CreateOrder(body) ==
    /\ Waiting
    /\ \E n \in {normalize_request_data(body)} :
      \E v \in {IF n.ok THEN is_valid(n.data, FALSE) ELSE NotValidated} :
      \E order \in {IF v.ok THEN Order_save(serializer_create(v.validated_data)) ELSE OrderDefaults} :
        /\ req' = [method |-> "POST", pk |-> "", body |-> body]
        /\ IF ~n.ok THEN resp' = Response(400, n.exc, {}) /\ UNCHANGED orders
           ELSE IF ~v.ok THEN resp' = Response(400, "ValidationError", v.errors) /\ UNCHANGED orders
           ELSE IF ~RowAccepted(order)
                THEN resp' = Response(400, "IntegrityError", {}) /\ UNCHANGED orders
           ELSE /\ \E new_id \in ProductIds :
                      /\ generate_product_id(new_id)
                      /\ orders' = Put(orders, new_id, order)
                /\ resp' = Response(201, "", {})

\* OrderDetailView.update (PUT, and PATCH with partial = True): only a validation
\* error and a missing order are answered 4xx, any other exception is a 500
UpdateOrder(pk, body, partial) ==
    /\ Waiting
    /\ \E n \in {IF pk \in DOMAIN orders THEN normalize_request_data(body) ELSE Raise("Http404")} :
      \E v \in {IF n.ok THEN is_valid(n.data, partial) ELSE NotValidated} :
      \E order \in {IF v.ok THEN Order_save(SetAttrs(orders[pk], v.validated_data)) ELSE OrderDefaults} :
        /\ req' = [method |-> IF partial THEN "PATCH" ELSE "PUT", pk |-> pk, body |-> body]
        /\ IF pk \notin DOMAIN orders THEN resp' = Response(404, "Http404", {}) /\ UNCHANGED orders
           ELSE IF ~n.ok THEN resp' = Response(500, n.exc, {}) /\ UNCHANGED orders
           ELSE IF ~v.ok THEN resp' = Response(400, "ValidationError", v.errors) /\ UNCHANGED orders
           ELSE IF ~RowAccepted(order)
                THEN resp' = Response(500, "IntegrityError", {}) /\ UNCHANGED orders
           ELSE /\ orders' = [orders EXCEPT ![pk] = order]
                /\ resp' = Response(200, "", {})

\* OrderDetailView.destroy
DestroyOrder(pk) ==
    /\ Waiting
    /\ req' = [method |-> "DELETE", pk |-> pk, body |-> Idle]
    /\ IF pk \notin DOMAIN orders THEN resp' = Response(404, "Http404", {}) /\ UNCHANGED orders
       ELSE /\ orders' = [id \in DOMAIN orders \ {pk} |-> orders[id]]
            /\ resp' = Response(204, "", {})

OrdersInit == orders = NoTable /\ req = NoRequest /\ resp = NoResponse

Create == \E body \in ApiForms \cup ApiJsonBodies : CreateOrder(body)
Update == \E pk \in ProductIds, body \in ApiForms \cup ApiJsonBodies, partial \in BOOLEAN :
              UpdateOrder(pk, body, partial)
Destroy == \E pk \in ProductIds : DestroyOrder(pk)

\* the response has been sent; the endpoint waits for the next request
Respond == ~Waiting /\ req' = NoRequest /\ resp' = NoResponse /\ UNCHANGED orders


(***************************************************************************)
(* Concurrent creations: each request is served by its own worker.  The    *)
(* code is drawn when the Order instance is built (the default of          *)
(* product_id); the row is inserted later, by Order.save, and no lock or   *)
(* transaction spans the two.                                              *)
(***************************************************************************)
Workers == {"w1", "w2"}

NoCreation == [pc |-> "idle", product_id |-> "", order |-> OrderDefaults, status |-> 0, exc |-> ""]
RaceIdle == creations = [w \in Workers |-> NoCreation]

ConcurrentForms ==
    { FormOf([customer_name |-> One(s_Acme), product_name |-> One(s_Shirt)]),
      FormOf([customer_name |-> One(s_Acme), product_name |-> One(s_Shirt),
              size_quantities |-> One(sq_S2_Mnull), is_set |-> One(s_true),
              set_multiplier |-> One(s_2)]),
      FormOf([product_name |-> One(s_Shirt)]),
      FormOf([customer_name |-> One(s_Acme), product_name |-> One(s_Shirt),
              size_quantities |-> One(sq_array)]) }

Answered(status, exc) == [NoCreation EXCEPT !.pc = "done", !.status = status, !.exc = exc]

\* OrderListCreateView.create up to the built instance: normalize, validate, and
\* Order(**validated_data), whose product_id default runs generate_product_id
BuildOrder(w, body) ==
    /\ creations[w].pc = "idle"
    /\ \E n \in {normalize_request_data(body)} :
      \E v \in {IF n.ok THEN is_valid(n.data, FALSE) ELSE NotValidated} :
        IF ~n.ok THEN creations' = [creations EXCEPT ![w] = Answered(400, n.exc)]
        ELSE IF ~v.ok THEN creations' = [creations EXCEPT ![w] = Answered(400, "ValidationError")]
        ELSE \E new_id \in ProductIds :
                /\ generate_product_id(new_id)
                /\ creations' = [creations EXCEPT ![w] =
                      [NoCreation EXCEPT !.pc = "built", !.product_id = new_id,
                                         !.order = serializer_create(v.validated_data)]]
    /\ UNCHANGED orders

\* Order.save with force_insert (objects.create): the INSERT fails on a primary
\* key that is already stored, and create answers every exception with 400
InsertOrder(w) ==
    /\ creations[w].pc = "built"
    /\ \E order \in {Order_save(creations[w].order)} :
        IF ~RowAccepted(order) \/ creations[w].product_id \in DOMAIN orders
        THEN /\ creations' = [creations EXCEPT ![w].pc = "done", ![w].status = 400,
                                               ![w].exc = "IntegrityError"]
             /\ UNCHANGED orders
        ELSE /\ orders' = Put(orders, creations[w].product_id, order)
             /\ creations' = [creations EXCEPT ![w].pc = "done", ![w].status = 201]

\* the response has been sent; the worker takes the next request
SendResponse(w) ==
    /\ creations[w].pc = "done"
    /\ creations' = [creations EXCEPT ![w] = NoCreation]
    /\ UNCHANGED orders

Build == \E w \in Workers, body \in ConcurrentForms : BuildOrder(w, body)
Insert == \E w \in Workers : InsertOrder(w)
Send == \E w \in Workers : SendResponse(w)


(***************************************************************************)
(* finance/views.py: parse_date_range, with django.utils.dateparse         *)
(* parse_date as documented: None when the text is not well formatted,     *)
(* ValueError when it is well formatted but no calendar date.              *)
(***************************************************************************)
PyDate(y, m, d) == [t |-> "date", v |-> [y |-> y, m |-> m, d |-> d]]

IsLeap(y) == (y % 4 = 0 /\ y % 100 # 0) \/ y % 400 = 0

DaysInMonth(y, m) ==
    IF m = 2 THEN (IF IsLeap(y) THEN 29 ELSE 28)
    ELSE IF m \in {4, 6, 9, 11} THEN 30 ELSE 31

\* datetime.date(y, m, d) accepts these
IsCalendarDate(y, m, d) == y >= 1 /\ m \in 1..12 /\ d >= 1 /\ d <= DaysInMonth(y, m)

RECURSIVE SplitHyphen(_)
SplitHyphen(s) ==
    IF \E i \in 1..Len(s) : s[i] = "-"
    THEN LET i == CHOOSE j \in 1..Len(s) : s[j] = "-" /\ \A k \in 1..(j - 1) : s[k] # "-"
         IN  <<SubSeq(s, 1, i - 1)>> \o SplitHyphen(SubSeq(s, i + 1, Len(s)))
    ELSE <<s>>

\* date_re: four digits, "-", one or two digits, "-", one or two digits
DateParts(s) == SplitHyphen(s)
MatchesDateRe(s) ==
    /\ Len(DateParts(s)) = 3
    /\ Len(DateParts(s)[1]) = 4 /\ AllDigits(DateParts(s)[1])
    /\ Len(DateParts(s)[2]) \in {1, 2} /\ AllDigits(DateParts(s)[2])
    /\ Len(DateParts(s)[3]) \in {1, 2} /\ AllDigits(DateParts(s)[3])

parse_date(s) ==
    IF ~MatchesDateRe(s) THEN [ok |-> TRUE, exc |-> "", val |-> PyNone]
    ELSE LET y == DecimalValue(DateParts(s)[1])
             m == DecimalValue(DateParts(s)[2])
             d == DecimalValue(DateParts(s)[3])
         IN  IF IsCalendarDate(y, m, d) THEN [ok |-> TRUE, exc |-> "", val |-> PyDate(y, m, d)]
             ELSE [ok |-> FALSE, exc |-> "ValueError", val |-> PyNone]

\* a <= b for dates
DateLess_or_equal(a, b) ==
    \/ a.v.y < b.v.y
    \/ a.v.y = b.v.y /\ a.v.m < b.v.m
    \/ a.v.y = b.v.y /\ a.v.m = b.v.m /\ a.v.d <= b.v.d

\* a < b for dates
DateLess(a, b) ==
    \/ a.v.y < b.v.y
    \/ a.v.y = b.v.y /\ a.v.m < b.v.m
    \/ a.v.y = b.v.y /\ a.v.m = b.v.m /\ a.v.d < b.v.d

RangeError(exc, field) == [ok |-> FALSE, exc |-> exc, field |-> field, start |-> PyNone, end |-> PyNone]

\* "s if s and s.strip() else None"
BlankToNone(s) == IF Truthy(s) /\ Len(strip(s.v)) > 0 THEN s ELSE PyNone

parse_date_range(start_str, end_str) ==
    LET s == BlankToNone(start_str)
        e == BlankToNone(end_str)
        start == IF Truthy(s) THEN parse_date(s.v) ELSE [ok |-> TRUE, exc |-> "", val |-> PyNone]
        end == IF Truthy(e) THEN parse_date(e.v) ELSE [ok |-> TRUE, exc |-> "", val |-> PyNone]
    IN  IF ~start.ok THEN RangeError(start.exc, "")
        ELSE IF ~end.ok THEN RangeError(end.exc, "")
        ELSE IF Truthy(s) /\ start.val.t = "NoneType" THEN RangeError("ValidationError", "start_date")
        ELSE IF Truthy(e) /\ end.val.t = "NoneType" THEN RangeError("ValidationError", "end_date")
        ELSE IF start.val.t = "date" /\ end.val.t = "date" /\ DateLess(end.val, start.val)
             THEN RangeError("ValidationError", "detail")
        ELSE [ok |-> TRUE, exc |-> "", field |-> "", start |-> start.val, end |-> end.val]


(***************************************************************************)
(* finance/models.py and finance/views.py: categories, transactions and    *)
(* the report.  An amount is held in thousandths, so that a value with     *)
(* more than two decimal places can be written and quantize_2 rounds.      *)
(***************************************************************************)
MaxTransactions == 2

CategoryIds == {1, 2}
TransactionIds == 1..MaxTransactions
CategoryNames == {"Sales", "Supplies"}
CATEGORY_TYPES == {"INCOME", "EXPENSE"}

\* the days the clock runs through
Calendar == <<PyDate(2024, 2, 28), PyDate(2024, 2, 29)>>
Today == Calendar[clock]

\* amounts a client sends: 200.00, 1000.00, 1.005 and -10.00
SampleAmounts == {200000, 1000000, 1005, -10000}

PyDecimal(x) == [t |-> "Decimal", v |-> x]

\* quantize_2: (x or Decimal("0")).quantize(Decimal("0.01"), rounding=ROUND_HALF_UP)
quantize_2(x) ==
    LET d == IF x.t = "NoneType" \/ x.v = 0 THEN 0 ELSE x.v
        magnitude == IF d < 0 THEN 0 - d ELSE d
        rounded == ((magnitude + 5) \div 10) * 10
    IN  PyDecimal(IF d < 0 THEN 0 - rounded ELSE rounded)

NoCategories == [id \in {} |-> [name |-> "", type |-> ""]]
NoTransactions == [id \in {} |-> [category |-> 0, amount |-> 0, date |-> Calendar[1]]]

d_0228 == <<"2","0","2","4","-","0","2","-","2","8">>
d_0229 == <<"2","0","2","4","-","0","2","-","2","9">>
d_0230 == <<"2","0","2","4","-","0","2","-","3","0">>
d_0301 == <<"2","0","2","4","-","0","3","-","0","1">>
d_short == <<"2","0","2","4","-","2","-","9">>
d_padded == <<" ","2","0","2","4","-","0","2","-","2","8">>
d_month13 == <<"2","0","2","4","-","1","3","-","0","1">>
d_slashes == <<"2","8","/","0","2","/","2","0","2","4">>
s_abc == <<"a","b","c">>

NoReport == [total_income |-> PyNone, total_expenses |-> PyNone, net_profit |-> PyNone,
             category_breakdown |-> <<>>, time_period |-> [start_date |-> PyNone, end_date |-> PyNone]]
NoFinanceRequest == [op |-> "", pk |-> 0, start_date |-> PyNone, end_date |-> PyNone]
NoFinanceResponse == [status |-> 0, exc |-> "", fields |-> {}, report |-> NoReport, listed |-> {}]
FinanceWaiting == freq.op = ""

FinanceRequest(op, pk) == [op |-> op, pk |-> pk, start_date |-> PyNone, end_date |-> PyNone]
FinanceResponse(status, exc, fields) ==
    [status |-> status, exc |-> exc, fields |-> fields, report |-> NoReport, listed |-> {}]

\* the id a new row gets (the sequence of the table, kept within the ids of the model)
NextId(ids, table) == CHOOSE id \in ids \ DOMAIN table : \A j \in ids \ DOMAIN table : id <= j

Remove(table, pk) == [id \in DOMAIN table \ {pk} |-> table[id]]

\* CategorySerializer: type is one of the choices, name is unique
CategoryErrors(name, type, self) ==
    {f \in {"name"} : \E id \in DOMAIN categories \ {self} : categories[id].name = name}
    \cup {f \in {"type"} : type \notin CATEGORY_TYPES}

\* TransactionSerializer: the category exists; the amount is not negative and has at
\* most two decimal places
TransactionErrors(category, amount) ==
    {f \in {"category"} : category \notin DOMAIN categories}
    \cup {f \in {"amount"} : amount < 0 \/ amount % 10 # 0}

\* CategoryViewSet.create
CreateCategory(name, type) ==
    /\ FinanceWaiting
    /\ freq' = FinanceRequest("create_category", 0)
    /\ IF CategoryErrors(name, type, 0) # {}
       THEN /\ fresp' = FinanceResponse(400, "ValidationError", CategoryErrors(name, type, 0))
            /\ UNCHANGED <<categories, transactions, clock>>
       ELSE /\ DOMAIN categories # CategoryIds
            /\ categories' = Put(categories, NextId(CategoryIds, categories), [name |-> name, type |-> type])
            /\ fresp' = FinanceResponse(201, "", {})
            /\ UNCHANGED <<transactions, clock>>

\* CategoryViewSet.update
UpdateCategory(pk, name, type) ==
    /\ FinanceWaiting
    /\ freq' = FinanceRequest("update_category", pk)
    /\ IF pk \notin DOMAIN categories
       THEN fresp' = FinanceResponse(404, "Http404", {}) /\ UNCHANGED <<categories, transactions, clock>>
       ELSE IF CategoryErrors(name, type, pk) # {}
       THEN /\ fresp' = FinanceResponse(400, "ValidationError", CategoryErrors(name, type, pk))
            /\ UNCHANGED <<categories, transactions, clock>>
       ELSE /\ categories' = [categories EXCEPT ![pk] = [name |-> name, type |-> type]]
            /\ fresp' = FinanceResponse(200, "", {})
            /\ UNCHANGED <<transactions, clock>>

\* on_delete=models.CASCADE-like deletion: no row keeps a category
Protecting_nothing(pk) == {}

\* on_delete=models.PROTECT: the rows that keep a category from being deleted
Protecting(pk) == {id \in DOMAIN transactions : transactions[id].category = pk}

\* CategoryViewSet.destroy: ProtectedError is not handled by the view
DestroyCategory(pk) ==
    /\ FinanceWaiting
    /\ freq' = FinanceRequest("destroy_category", pk)
    /\ IF pk \notin DOMAIN categories
       THEN fresp' = FinanceResponse(404, "Http404", {}) /\ UNCHANGED <<categories, transactions, clock>>
       ELSE IF Protecting(pk) # {}
       THEN fresp' = FinanceResponse(500, "ProtectedError", {}) /\ UNCHANGED <<categories, transactions, clock>>
       ELSE /\ categories' = Remove(categories, pk)
            /\ fresp' = FinanceResponse(204, "", {})
            /\ UNCHANGED <<transactions, clock>>

\* TransactionViewSet.create: date is auto_now_add
CreateTransaction(category, amount) ==
    /\ FinanceWaiting
    /\ freq' = FinanceRequest("create_transaction", 0)
    /\ IF TransactionErrors(category, amount) # {}
       THEN /\ fresp' = FinanceResponse(400, "ValidationError", TransactionErrors(category, amount))
            /\ UNCHANGED <<categories, transactions, clock>>
       ELSE /\ DOMAIN transactions # TransactionIds
            /\ transactions' = Put(transactions, NextId(TransactionIds, transactions),
                                   [category |-> category, amount |-> amount, date |-> Today])
            /\ fresp' = FinanceResponse(201, "", {})
            /\ UNCHANGED <<categories, clock>>

\* TransactionViewSet.update: date is not editable
UpdateTransaction(pk, category, amount) ==
    /\ FinanceWaiting
    /\ freq' = FinanceRequest("update_transaction", pk)
    /\ IF pk \notin DOMAIN transactions
       THEN fresp' = FinanceResponse(404, "Http404", {}) /\ UNCHANGED <<categories, transactions, clock>>
       ELSE IF TransactionErrors(category, amount) # {}
       THEN /\ fresp' = FinanceResponse(400, "ValidationError", TransactionErrors(category, amount))
            /\ UNCHANGED <<categories, transactions, clock>>
       ELSE /\ transactions' = [transactions EXCEPT ![pk].category = category, ![pk].amount = amount]
            /\ fresp' = FinanceResponse(200, "", {})
            /\ UNCHANGED <<categories, clock>>

\* TransactionViewSet.destroy
DestroyTransaction(pk) ==
    /\ FinanceWaiting
    /\ freq' = FinanceRequest("destroy_transaction", pk)
    /\ IF pk \notin DOMAIN transactions
       THEN fresp' = FinanceResponse(404, "Http404", {}) /\ UNCHANGED <<categories, transactions, clock>>
       ELSE /\ transactions' = Remove(transactions, pk)
            /\ fresp' = FinanceResponse(204, "", {})
            /\ UNCHANGED <<categories, clock>>


\* date.isoformat()
isoformat(date) ==
    <<Digits[((date.v.y \div 1000) % 10) + 1], Digits[((date.v.y \div 100) % 10) + 1],
      Digits[((date.v.y \div 10) % 10) + 1], Digits[(date.v.y % 10) + 1], "-",
      Digits[((date.v.m \div 10) % 10) + 1], Digits[(date.v.m % 10) + 1], "-",
      Digits[((date.v.d \div 10) % 10) + 1], Digits[(date.v.d % 10) + 1]>>

\* the filters date__gt and date__lt instead
FilterByDate_exclusive(start, end) ==
    {id \in DOMAIN transactions :
        /\ start.t = "date" => DateLess(start, transactions[id].date)
        /\ end.t = "date" => DateLess(transactions[id].date, end)}

\* the queryset after the two optional filters date__gte and date__lte
FilterByDate(start, end) ==
    {id \in DOMAIN transactions :
        /\ start.t = "date" => ~DateLess(transactions[id].date, start)
        /\ end.t = "date" => ~DateLess(end, transactions[id].date)}

RECURSIVE TotalAmount(_)
TotalAmount(ids) ==
    IF ids = {} THEN 0
    ELSE LET id == CHOOSE j \in ids : TRUE
         IN  transactions[id].amount + TotalAmount(ids \ {id})

\* Sum("amount") over rows: NULL when there is no row
Sum(ids) == IF ids = {} THEN PyNone ELSE PyDecimal(TotalAmount(ids))

OfType(ids, type) == {id \in ids : categories[transactions[id].category].type = type}

\* .values("category_name", "category_type"): the groups of the breakdown
Groups(ids) ==
    {<<categories[transactions[id].category].name, categories[transactions[id].category].type>> :
        id \in ids}

InGroup(ids, g) ==
    {id \in ids : /\ categories[transactions[id].category].name = g[1]
                  /\ categories[transactions[id].category].type = g[2]}

\* "INCOME" sorts after "EXPENSE"
TypeRank(type) == IF type = "INCOME" THEN 1 ELSE 0

\* order_by("-total_amount") alone
MayPrecede_by_total(ids, g, h) == TotalAmount(InGroup(ids, g)) >= TotalAmount(InGroup(ids, h))

\* order_by("-category_type", "-total_amount"): g may come before h
MayPrecede(ids, g, h) ==
    \/ TypeRank(g[2]) > TypeRank(h[2])
    \/ g[2] = h[2] /\ TotalAmount(InGroup(ids, g)) >= TotalAmount(InGroup(ids, h))

\* the orders in which the database may return the groups (equal keys in any order)
BreakdownOrders(ids) ==
    {rows \in [1..Cardinality(Groups(ids)) -> Groups(ids)] :
        /\ \A i, j \in DOMAIN rows : i # j => rows[i] # rows[j]
        /\ \A i, j \in DOMAIN rows : i < j => MayPrecede(ids, rows[i], rows[j])}

BreakdownRow(ids, g) ==
    [category_name |-> g[1], category_type |-> g[2],
     total_amount |-> quantize_2(Sum(InGroup(ids, g)))]

ReportOf(ids, rows, start, end) ==
    LET income == quantize_2(Sum(OfType(ids, "INCOME")))
        expenses == quantize_2(Sum(OfType(ids, "EXPENSE")))
    IN  [total_income |-> income,
         total_expenses |-> expenses,
         net_profit |-> quantize_2(PyDecimal(income.v - expenses.v)),
         category_breakdown |-> [i \in DOMAIN rows |-> BreakdownRow(ids, rows[i])],
         time_period |-> [start_date |-> IF start.t = "date" THEN PyStr(isoformat(start)) ELSE PyNone,
                          end_date |-> IF end.t = "date" THEN PyStr(isoformat(end)) ELSE PyNone]]

\* query parameters of the report and list requests
QueryDates == {PyNone, PyStr(d_0228), PyStr(d_0229)}
ImpossibleDates == {PyStr(d_0230)}

\* parse_date_range on each pair of these parameters, computed once
ParsedRanges ==
    [p \in (QueryDates \cup ImpossibleDates) \X (QueryDates \cup ImpossibleDates) |->
        parse_date_range(p[1], p[2])]

\* how the framework answers what parse_date_range raises
RangeFailure(r) ==
    IF r.exc = "ValidationError" THEN FinanceResponse(400, r.exc, {r.field})
    ELSE FinanceResponse(500, r.exc, {})

\* finance_report
finance_report(start_str, end_str) ==
    LET r == ParsedRanges[<<start_str, end_str>>]
        found == FilterByDate(r.start, r.end)
    IN  /\ FinanceWaiting
        /\ freq' = [op |-> "report", pk |-> 0, start_date |-> start_str, end_date |-> end_str]
        /\ UNCHANGED <<categories, transactions, clock>>
        /\ IF ~r.ok THEN fresp' = RangeFailure(r)
           ELSE \E rows \in BreakdownOrders(found) :
                    fresp' = [status |-> 200, exc |-> "", fields |-> {},
                              report |-> ReportOf(found, rows, r.start, r.end), listed |-> {}]

\* TransactionViewSet.get_queryset for the list action
ListTransactions(start_str, end_str) ==
    LET r == ParsedRanges[<<start_str, end_str>>]
    IN  /\ FinanceWaiting
        /\ freq' = [op |-> "list", pk |-> 0, start_date |-> start_str, end_date |-> end_str]
        /\ UNCHANGED <<categories, transactions, clock>>
        /\ IF ~r.ok THEN fresp' = RangeFailure(r)
           ELSE fresp' = [status |-> 200, exc |-> "", fields |-> {}, report |-> NoReport,
                          listed |-> FilterByDate(r.start, r.end)]

\* a day passes
Tick ==
    /\ FinanceWaiting
    /\ clock < Len(Calendar)
    /\ clock' = clock + 1
    /\ UNCHANGED <<categories, transactions, freq, fresp>>

FinanceRespond ==
    /\ ~FinanceWaiting
    /\ freq' = NoFinanceRequest
    /\ fresp' = NoFinanceResponse
    /\ UNCHANGED <<categories, transactions, clock>>

FinanceInit ==
    /\ categories = NoCategories
    /\ transactions = NoTransactions
    /\ clock = 1
    /\ freq = NoFinanceRequest
    /\ fresp = NoFinanceResponse

CategoryCreate == \E name \in CategoryNames, type \in CATEGORY_TYPES \cup {"OTHER"} : CreateCategory(name, type)
CategoryUpdate == \E pk \in CategoryIds, name \in CategoryNames, type \in CATEGORY_TYPES :
                      UpdateCategory(pk, name, type)
CategoryDestroy == \E pk \in CategoryIds : DestroyCategory(pk)
TransactionCreate == \E category \in CategoryIds, amount \in SampleAmounts : CreateTransaction(category, amount)
TransactionUpdate == \E pk \in TransactionIds, category \in CategoryIds, amount \in SampleAmounts :
                         UpdateTransaction(pk, category, amount)
TransactionDestroy == \E pk \in TransactionIds : DestroyTransaction(pk)
Report == \E start_str \in QueryDates \cup ImpossibleDates, end_str \in QueryDates :
              finance_report(start_str, end_str)
List == \E start_str \in QueryDates, end_str \in QueryDates : ListTransactions(start_str, end_str)

(***************************************************************************)
(* parse_date_range as a function under test                               *)
(***************************************************************************)
DateTexts ==
    {PyNone, PyStr(<<>>), PyStr(s_blank), PyStr(s_abc), PyStr(d_0228), PyStr(d_0229),
     PyStr(d_0230), PyStr(d_0301), PyStr(d_short), PyStr(d_padded), PyStr(d_month13),
     PyStr(d_slashes)}

RangeNotCalled == RangeError("not called", "")
RangeCalled == range_out.exc # "not called"

RangeIdle == range_in = <<PyNone, PyNone>> /\ range_out = RangeNotCalled

RangeInit ==
    /\ range_in \in DateTexts \X DateTexts
    /\ range_out = RangeNotCalled

ParseDateRange ==
    /\ ~RangeCalled
    /\ range_out' = parse_date_range(range_in[1], range_in[2])
    /\ UNCHANGED range_in

(***************************************************************************)
(* Specifications                                                          *)
(***************************************************************************)
NormIdle == n_in = Idle /\ n_out = NotCalled

\* the order endpoints
Init == OrdersInit /\ NormIdle /\ FinanceInit /\ RangeIdle /\ RaceIdle

Next ==
    \/ Create /\ UNCHANGED <<normVars, financeVars, rangeVars, raceVars>>
    \/ Update /\ UNCHANGED <<normVars, financeVars, rangeVars, raceVars>>
    \/ Destroy /\ UNCHANGED <<normVars, financeVars, rangeVars, raceVars>>
    \/ Respond /\ UNCHANGED <<normVars, financeVars, rangeVars, raceVars>>

Spec == Init /\ [][Next]_vars

\* normalize_request_data applied to each sample request
NormalizeInit == NormInit /\ OrdersInit /\ FinanceInit /\ RangeIdle /\ RaceIdle
NormalizeNext == Normalize /\ UNCHANGED <<orderVars, financeVars, rangeVars, raceVars>>
NormalizeSpec == NormalizeInit /\ [][NormalizeNext]_vars

\* the finance endpoints
FinanceNext ==
    \/ CategoryCreate /\ UNCHANGED <<normVars, orderVars, rangeVars, raceVars>>
    \/ CategoryUpdate /\ UNCHANGED <<normVars, orderVars, rangeVars, raceVars>>
    \/ CategoryDestroy /\ UNCHANGED <<normVars, orderVars, rangeVars, raceVars>>
    \/ TransactionCreate /\ UNCHANGED <<normVars, orderVars, rangeVars, raceVars>>
    \/ TransactionUpdate /\ UNCHANGED <<normVars, orderVars, rangeVars, raceVars>>
    \/ TransactionDestroy /\ UNCHANGED <<normVars, orderVars, rangeVars, raceVars>>
    \/ Report /\ UNCHANGED <<normVars, orderVars, rangeVars, raceVars>>
    \/ List /\ UNCHANGED <<normVars, orderVars, rangeVars, raceVars>>
    \/ Tick /\ UNCHANGED <<normVars, orderVars, rangeVars, raceVars>>
    \/ FinanceRespond /\ UNCHANGED <<normVars, orderVars, rangeVars, raceVars>>

FinanceSpec == Init /\ [][FinanceNext]_vars

\* parse_date_range applied to each pair of sample texts
DateRangeInit == RangeInit /\ OrdersInit /\ NormIdle /\ FinanceInit /\ RaceIdle
DateRangeNext == ParseDateRange /\ UNCHANGED <<normVars, orderVars, financeVars, raceVars>>
DateRangeSpec == DateRangeInit /\ [][DateRangeNext]_vars


\* order creations served concurrently
ConcurrentNext ==
    \/ Build /\ UNCHANGED <<req, resp, normVars, financeVars, rangeVars>>
    \/ Insert /\ UNCHANGED <<req, resp, normVars, financeVars, rangeVars>>
    \/ Send /\ UNCHANGED <<req, resp, normVars, financeVars, rangeVars>>

ConcurrentSpec == Init /\ [][ConcurrentNext]_vars

(***************************************************************************)
(* Claims about the order endpoints (Spec)                                 *)
(***************************************************************************)
\* the sum of the non-null values of a stored size_quantities, size by size
RECURSIVE SumOver(_, _)
SumOver(sq, keys) ==
    IF keys = {} THEN 0
    ELSE LET k == CHOOSE j \in keys : TRUE
         IN  (IF sq[k].t = "NoneType" THEN 0 ELSE sq[k].v) + SumOver(sq, keys \ {k})

ExpectedQuantity(o) ==
    IF o.is_set.v
    THEN o.set_multiplier.v * SumOver(o.size_quantities.v, DOMAIN o.size_quantities.v)
    ELSE SumOver(o.size_quantities.v, DOMAIN o.size_quantities.v)

\* C1: every stored order has quantity = sum of its non-null size_quantities values,
\* times set_multiplier when is_set, whatever quantity the request carried (0 when
\* size_quantities is empty)
C1_QuantityDerived ==
    \A id \in DOMAIN orders :
        /\ orders[id].size_quantities.t = "dict"
        /\ orders[id].quantity.v = ExpectedQuantity(orders[id])

\* a set order created from {"S":2,"M":null} x 2 by a request that said quantity 7
C1_Witness ==
    /\ req.method = "POST" /\ resp.status = 201
    /\ "quantity" \in DOMAIN req.body.items /\ req.body.items["quantity"] = <<s_7>>
    /\ \E id \in DOMAIN orders :
          /\ orders[id].is_set.v /\ orders[id].set_multiplier.v = 2
          /\ s_M \in DOMAIN orders[id].size_quantities.v
          /\ orders[id].size_quantities.v[s_M].t = "NoneType"
          /\ orders[id].quantity.v = 4

\* the keys of the size_quantities a request carries, as the client wrote them
RequestSizeKeys(body) ==
    IF "size_quantities" \notin DOMAIN body.items THEN {}
    ELSE IF body.cls = "dict"
         THEN (IF body.items["size_quantities"].t = "dict"
               THEN DOMAIN body.items["size_quantities"].v ELSE {})
    ELSE LET text == body.items["size_quantities"][Len(body.items["size_quantities"])]
         IN  IF json_loads(text).ok /\ json_loads(text).val.t = "dict"
             THEN DOMAIN json_loads(text).val.v ELSE {}

HasUnknownSizeKey(body) == \E k \in RequestSizeKeys(body) : k \notin SIZE_CHOICES

\* C2: a create or update request (for an order that exists) whose size_quantities
\* has a key outside S..3XL is answered with a 4xx validation error on the
\* size_quantities field
C2_UnknownSizeKeyRejected ==
    (/\ req.method \in {"POST", "PUT", "PATCH"}
     /\ req.method # "POST" => req.pk \in DOMAIN orders
     /\ HasUnknownSizeKey(req.body))
    => /\ resp.status \in 400..499
       /\ resp.exc = "ValidationError"
       /\ "size_quantities" \in resp.fields


(***************************************************************************)
(* Claims about the finance endpoints (FinanceSpec)                        *)
(***************************************************************************)
DateKey(d) == d.v.y * 10000 + d.v.m * 100 + d.v.d

\* the date each query parameter of the model denotes, None when it denotes none
DenotedDates ==
    [s \in QueryDates \cup ImpossibleDates |->
        IF s.t = "str" /\ parse_date(s.v).ok /\ parse_date(s.v).val.t = "date"
        THEN parse_date(s.v).val ELSE PyNone]

AskedDate(s) == DenotedDates[s]

ValidQuery(s) == s.t = "NoneType" \/ AskedDate(s).t = "date"

StartAfterEnd ==
    /\ AskedDate(freq.start_date).t = "date" /\ AskedDate(freq.end_date).t = "date"
    /\ DateKey(AskedDate(freq.start_date)) > DateKey(AskedDate(freq.end_date))

\* the transactions dated within the inclusive range the request asked for
AskedFor ==
    LET start == AskedDate(freq.start_date)
        end == AskedDate(freq.end_date)
    IN  {id \in DOMAIN transactions :
            /\ start.t = "date" => DateKey(transactions[id].date) >= DateKey(start)
            /\ end.t = "date" => DateKey(transactions[id].date) <= DateKey(end)}

AskedOfType(type) ==
    LET asked == AskedFor
    IN  {id \in asked : categories[transactions[id].category].type = type}

AskedOfCategory(name, type) ==
    LET asked == AskedFor
    IN  {id \in asked : /\ categories[transactions[id].category].name = name
                        /\ categories[transactions[id].category].type = type}

\* the amounts of the transactions of ids among 1..n, added up
RECURSIVE AmountUpTo(_, _)
AmountUpTo(n, ids) ==
    IF n = 0 THEN 0
    ELSE (IF n \in ids THEN transactions[n].amount ELSE 0) + AmountUpTo(n - 1, ids)

AmountOf(ids) == AmountUpTo(MaxTransactions, ids)

\* C3: for valid optional dates (start not after end) the report is returned with
\* total_income = sum of the INCOME amounts dated in the inclusive range,
\* total_expenses = the same for EXPENSE, net_profit = their difference, each a
\* two-decimal amount and 0 when there is no such transaction
C3_ReportTotals ==
    (/\ freq.op = "report"
     /\ ValidQuery(freq.start_date) /\ ValidQuery(freq.end_date)
     /\ ~StartAfterEnd)
    => LET income == AmountOf(AskedOfType("INCOME"))
           expenses == AmountOf(AskedOfType("EXPENSE"))
       IN  /\ fresp.status = 200
           /\ fresp.report.total_income = PyDecimal(income)
           /\ fresp.report.total_expenses = PyDecimal(expenses)
           /\ fresp.report.net_profit = PyDecimal(income - expenses)
           /\ fresp.report.total_income.v % 10 = 0
           /\ fresp.report.total_expenses.v % 10 = 0
           /\ fresp.report.net_profit.v % 10 = 0

\* one INCOME of 1000 and one EXPENSE of 200, no dates: 1000.00, 200.00, 800.00
C3_Witness ==
    /\ freq.op = "report" /\ freq.start_date = PyNone /\ freq.end_date = PyNone
    /\ Cardinality(DOMAIN transactions) = 2
    /\ fresp.report.total_income = PyDecimal(1000000)
    /\ fresp.report.total_expenses = PyDecimal(200000)
    /\ fresp.report.net_profit = PyDecimal(800000)

\* C4: category_breakdown has exactly one row per (category name, category type)
\* with a transaction in the range, its total_amount the sum of those amounts;
\* INCOME rows come before EXPENSE rows and rows of one type are by descending total
C4_Breakdown ==
    (freq.op = "report" /\ fresp.status = 200)
    => LET rows == fresp.report.category_breakdown
       IN  /\ {<<rows[i].category_name, rows[i].category_type>> : i \in DOMAIN rows}
                 = {<<categories[transactions[id].category].name,
                      categories[transactions[id].category].type>> : id \in AskedFor}
           /\ \A i, j \in DOMAIN rows :
                 (/\ rows[i].category_name = rows[j].category_name
                  /\ rows[i].category_type = rows[j].category_type) => i = j
           /\ \A i \in DOMAIN rows :
                 rows[i].total_amount =
                     PyDecimal(AmountOf(AskedOfCategory(rows[i].category_name, rows[i].category_type)))
           /\ \A i, j \in DOMAIN rows :
                 i < j => /\ ~(rows[i].category_type = "EXPENSE" /\ rows[j].category_type = "INCOME")
                          /\ rows[i].category_type = rows[j].category_type
                                => rows[i].total_amount.v >= rows[j].total_amount.v

\* an INCOME row of 200 listed before an EXPENSE row of 1000
C4_Witness ==
    /\ freq.op = "report" /\ fresp.status = 200
    /\ Len(fresp.report.category_breakdown) = 2
    /\ fresp.report.category_breakdown[1].category_type = "INCOME"
    /\ fresp.report.category_breakdown[2].category_type = "EXPENSE"
    /\ fresp.report.category_breakdown[1].total_amount.v = 200000
    /\ fresp.report.category_breakdown[2].total_amount.v = 1000000

\* C5: when both dates are given and valid, the report and the transaction list
\* answer with a validation error, and no report or list, exactly when start is
\* later than end
C5_StartAfterEndRejected ==
    (/\ freq.op \in {"report", "list"}
     /\ AskedDate(freq.start_date).t = "date" /\ AskedDate(freq.end_date).t = "date")
    => IF StartAfterEnd
       THEN /\ fresp.status = 400 /\ fresp.exc = "ValidationError"
            /\ fresp.report = NoReport /\ fresp.listed = {}
       ELSE fresp.status = 200

\* the list asked from 2024-02-29 to 2024-02-28 while a transaction is stored
C5_Witness ==
    /\ freq.op = "list" /\ freq.start_date = PyStr(d_0229) /\ freq.end_date = PyStr(d_0228)
    /\ DOMAIN transactions # {}
    /\ fresp.status = 400 /\ fresp.listed = {}

\* the transactions that reference a category
ReferencedBy(pk) == {id \in DOMAIN transactions : transactions[id].category = pk}

\* C7: deleting a category that a transaction references fails and leaves both
\* tables as they were, deleting an unreferenced one removes exactly it, and after
\* every step each transaction's category exists
C7_CategoryProtected ==
    [][/\ \A id \in DOMAIN transactions' : transactions'[id].category \in DOMAIN categories'
       /\ (FinanceWaiting /\ freq'.op = "destroy_category" /\ freq'.pk \in DOMAIN categories)
          => IF ReferencedBy(freq'.pk) # {}
             THEN /\ fresp'.status >= 400
                  /\ categories' = categories /\ transactions' = transactions
             ELSE /\ fresp'.status = 204
                  /\ DOMAIN categories' = DOMAIN categories \ {freq'.pk}
                  /\ \A id \in DOMAIN categories' : categories'[id] = categories[id]
                  /\ transactions' = transactions]_vars

\* a delete of a referenced category that was refused
C7_Witness ==
    /\ freq.op = "destroy_category" /\ freq.pk \in DOMAIN categories
    /\ ReferencedBy(freq.pk) # {}
    /\ fresp.exc = "ProtectedError"


(***************************************************************************)
(* Claims about parse_date_range (DateRangeSpec)                           *)
(***************************************************************************)
IsBlankText(s) == s.t = "NoneType" \/ strip(s.v) = <<>>

\* a day of the calendar written year-month-day (the month and the day are taken
\* with or without their leading zero)
IsIsoDate(text) ==
    LET parts == SplitHyphen(text)
    IN  /\ Len(parts) = 3
        /\ Len(parts[1]) = 4 /\ Len(parts[2]) \in {1, 2} /\ Len(parts[3]) \in {1, 2}
        /\ \A i \in 1..3 : AllDigits(parts[i])
        /\ IsCalendarDate(DecimalValue(parts[1]), DecimalValue(parts[2]), DecimalValue(parts[3]))

Offending(s) == ~IsBlankText(s) /\ ~IsIsoDate(s.v)

\* C6: a non-blank start_date or end_date that is not a valid YYYY-MM-DD calendar
\* date makes parse_date_range fail with a validation error keyed by that field
\* (start_date first) and with no other failure; a blank value counts as absent
C6_MalformedDateNamesField ==
    RangeCalled
    => /\ Offending(range_in[1])
             => /\ ~range_out.ok /\ range_out.exc = "ValidationError"
                /\ range_out.field = "start_date"
       /\ (~Offending(range_in[1]) /\ Offending(range_in[2]))
             => /\ ~range_out.ok /\ range_out.exc = "ValidationError"
                /\ range_out.field = "end_date"
       /\ IsBlankText(range_in[1]) => range_out = parse_date_range(PyNone, range_in[2])
       /\ IsBlankText(range_in[2]) => range_out = parse_date_range(range_in[1], PyNone)

(***************************************************************************)
(* Claims about normalize_request_data (NormalizeSpec)                     *)
(***************************************************************************)
IsQuantityMapping(x) ==
    /\ x.t = "dict"
    /\ \A k \in DOMAIN x.v : x.v[k].t \in {"int", "NoneType"}

\* the size_quantities text of a form, None when the field is not sent
SizeQuantitiesText(body) ==
    IF body.cls = "QueryDict" /\ "size_quantities" \in DOMAIN body.items
    THEN PyStr(body.items["size_quantities"][Len(body.items["size_quantities"])])
    ELSE PyNone

\* C8: whatever size_quantities is (absent, a mapping, any string), the normalizer
\* does not fail and returns size_quantities as a mapping with int or None
\* values; a string that is not well-formed JSON gives the empty mapping
C8_SizeQuantitiesNeverFails ==
    Called
    => /\ n_out.ok
       /\ IsQuantityMapping(n_out.data["size_quantities"])
       /\ (/\ SizeQuantitiesText(n_in).t = "str"
           /\ ~json_loads(SizeQuantitiesText(n_in).v).ok)
             => n_out.data["size_quantities"] = PyDict(EmptyMap)

Canonical(data) ==
    /\ {"size", "colours", "size_quantities", "is_set", "set_multiplier", "quantity"}
          \subseteq DOMAIN data
    /\ data["size"].t = "list" /\ data["colours"].t = "list"
    /\ IsQuantityMapping(data["size_quantities"])
    /\ data["is_set"].t = "bool"
    /\ data["set_multiplier"].t = "int" /\ data["quantity"].t = "int"

\* one set order, as a JSON body and as a form
JsonSetOrder ==
    JsonBody([size |-> PyList(<<PyStr(s_S)>>),
              size_quantities |-> PyDict([k \in {s_S} |-> PyInt(2)]),
              is_set |-> PyBool(TRUE), set_multiplier |-> PyInt(2), quantity |-> PyInt(7)])

FormSetOrder ==
    QueryDict([size |-> <<s_S>>, size_quantities |-> <<sq_S2>>, is_set |-> <<s_true>>,
               set_multiplier |-> <<s_2>>, quantity |-> <<s_7>>])

\* C9: the normalizer returns the canonical mapping for a form as for a JSON body,
\* a JSON body never fails for being one, and the same field values give the same
\* result under both
C9_BothEncodings ==
    Called
    => /\ n_out.ok => Canonical(n_out.data)
       /\ n_in.cls = "dict" => n_out.ok
       /\ n_in = JsonSetOrder => n_out = normalize_request_data(FormSetOrder)

\* the entries of a multi-valued field as sent
Sent(body, key) ==
    IF body.cls = "QueryDict" /\ key \in DOMAIN body.items THEN body.items[key] ELSE <<>>

NonBlankEntries(texts) == SelectSeq(texts, LAMBDA v : strip(v) # <<>>)

\* C10 as stated: in the returned mapping size and colours are lists of non-empty
\* strings without leading or trailing whitespace (" S " appears as "S"), the
\* empty and whitespace-only entries dropped
C10_ArraysTrimmed ==
    (Called /\ n_out.ok)
    => \A key \in {"size", "colours"} :
          /\ n_out.data[key].t = "list"
          /\ \A i \in DOMAIN n_out.data[key].v :
                /\ n_out.data[key].v[i].t = "str"
                /\ n_out.data[key].v[i].v # <<>>
                /\ strip(n_out.data[key].v[i].v) = n_out.data[key].v[i].v
          /\ Len(n_out.data[key].v) = Len(NonBlankEntries(Sent(n_in, key)))
          /\ \A i \in DOMAIN n_out.data[key].v :
                n_out.data[key].v[i].v = strip(NonBlankEntries(Sent(n_in, key))[i])

\* C10: in the returned mapping size and colours are lists of strings that each
\* hold a non-whitespace character: the empty and whitespace-only entries are
\* dropped and every other entry is kept as sent, in order, untrimmed
C10_ArraysFiltered ==
    (Called /\ n_out.ok)
    => \A key \in {"size", "colours"} :
          /\ n_out.data[key].t = "list"
          /\ \A i \in DOMAIN n_out.data[key].v :
                /\ n_out.data[key].v[i].t = "str"
                /\ strip(n_out.data[key].v[i].v) # <<>>
          /\ Len(n_out.data[key].v) = Len(NonBlankEntries(Sent(n_in, key)))
          /\ \A i \in DOMAIN n_out.data[key].v :
                n_out.data[key].v[i].v = NonBlankEntries(Sent(n_in, key))[i]

\* size sent as " S ", "" and "M": returned as " S " and "M"
C10_Witness ==
    /\ Called /\ n_out.ok
    /\ Sent(n_in, "size") = <<s_S_padded, <<>>, s_M>>
    /\ n_out.data["size"] = PyList(<<PyStr(s_S_padded), PyStr(s_M)>>)


\* the text a form sends for a single-valued field, None when it sends none
SentText(body, key) ==
    IF body.cls = "QueryDict" /\ key \in DOMAIN body.items /\ Len(body.items[key]) > 0
    THEN PyStr(body.items[key][Len(body.items[key])])
    ELSE PyNone

\* two characters that are the same letter, whatever their case
SameLetter(c, d) ==
    \/ c = d
    \/ \E i \in DOMAIN UpperCase : {c, d} = {UpperCase[i], LowerCase[i]}

SpellsTrue(text) ==
    \E w \in {<<"t","r","u","e">>, <<"1">>, <<"y","e","s">>, <<"o","n">>} :
        /\ Len(w) = Len(text)
        /\ \A i \in DOMAIN w : SameLetter(text[i], w[i])

\* C11: in the returned mapping is_set is a boolean: for a string it is true
\* exactly when the string is 'true', '1', 'yes' or 'on' in any letter case, and it
\* is false when is_set is absent
C11_IsSetBoolean ==
    (Called /\ n_out.ok)
    => /\ n_out.data["is_set"].t = "bool"
       /\ SentText(n_in, "is_set").t = "str"
             => n_out.data["is_set"].v = SpellsTrue(SentText(n_in, "is_set").v)
       /\ SentText(n_in, "is_set").t = "NoneType" => n_out.data["is_set"].v = FALSE

\* is_set sent as "Yes": returned as True
C11_Witness ==
    /\ Called /\ n_out.ok
    /\ SentText(n_in, "is_set") = PyStr(s_Yes)
    /\ n_out.data["is_set"] = PyBool(TRUE)

\* the integer a text converts to: optional sign and digits, spaces around allowed
TextToInt(text) ==
    LET body == SelectSeq(text, LAMBDA c : c # " ")
        digits == IF body # <<>> /\ body[1] \in {"-", "+"} THEN Tail(body) ELSE body
    IN  IF /\ digits # <<>>
           /\ \A i \in DOMAIN digits : IsDigit(digits[i])
           /\ \E i, j \in 0..Len(text) :
                 /\ i + Len(body) + j = Len(text)
                 /\ SubSeq(text, i + 1, i + Len(body)) = body
        THEN [ok |-> TRUE,
              v |-> IF body[1] = "-" THEN 0 - DecimalValue(digits) ELSE DecimalValue(digits)]
        ELSE [ok |-> FALSE, v |-> 0]

ExpectedInt(body, key, fallback) ==
    IF SentText(body, key).t = "str" /\ TextToInt(SentText(body, key).v).ok
    THEN PyInt(TextToInt(SentText(body, key).v).v)
    ELSE PyInt(fallback)

\* C12: in the returned mapping set_multiplier and quantity are integers: the
\* integer conversion of the value sent when it converts, else 1 and 0; a value
\* that does not convert never makes the normalizer fail
C12_IntegersCoerced ==
    Called
    => /\ n_out.ok
          => /\ n_out.data["set_multiplier"] = ExpectedInt(n_in, "set_multiplier", 1)
             /\ n_out.data["quantity"] = ExpectedInt(n_in, "quantity", 0)
       /\ (n_in.cls = "QueryDict" /\ "size_quantities" \notin DOMAIN n_in.items) => n_out.ok

\* set_multiplier sent as " 3 " and quantity as "x": returned as 3 and 0
C12_Witness ==
    /\ Called /\ n_out.ok
    /\ SentText(n_in, "set_multiplier") = PyStr(s_3_padded)
    /\ SentText(n_in, "quantity") = PyStr(s_x)
    /\ n_out.data["set_multiplier"] = PyInt(3)
    /\ n_out.data["quantity"] = PyInt(0)


\* C13: after any creates and updates every stored order's size_quantities has
\* only keys among S, M, L, XL, 2XL, 3XL and every value is null or an integer
\* that is not negative
C13_StoredQuantitiesNonNegative ==
    \A id \in DOMAIN orders :
        /\ orders[id].size_quantities.t = "dict"
        /\ DOMAIN orders[id].size_quantities.v \subseteq SIZE_CHOICES
        /\ \A k \in DOMAIN orders[id].size_quantities.v :
              \/ orders[id].size_quantities.v[k].t = "NoneType"
              \/ /\ orders[id].size_quantities.v[k].t = "int"
                 /\ orders[id].size_quantities.v[k].v >= 0

\* the fields of a stored order that a request supplies; quantity, which is derived,
\* counts as supplied with any of the fields it is derived from
Supplied(body) ==
    LET sent == DOMAIN body.items \cap DOMAIN OrderDefaults
    IN  IF sent \cap {"size_quantities", "is_set", "set_multiplier"} # {}
        THEN sent \cup {"quantity"} ELSE sent

\* C15: a PATCH of an existing order leaves every field the request does not
\* supply as it was (a PATCH of status alone leaves size, colours,
\* size_quantities, is_set, set_multiplier and quantity), and leaves every other
\* order unchanged
C15_PatchKeepsOtherFields ==
    [][(/\ Waiting
        /\ req'.method = "PATCH"
        /\ req'.pk \in DOMAIN orders)
       => /\ DOMAIN orders' = DOMAIN orders
          /\ \A id \in DOMAIN orders \ {req'.pk} : orders'[id] = orders[id]
          /\ \A f \in DOMAIN OrderDefaults \ Supplied(req'.body) :
                orders'[req'.pk][f] = orders[req'.pk][f]]_vars


(***************************************************************************)
(* Claims about concurrent creations (ConcurrentSpec)                      *)
(***************************************************************************)
\* C14: under any interleaving of concurrent creations no two stored orders share
\* a code, no creation overwrites or alters an order already stored, and every
\* creation that has drawn its code ends with its order stored (a collision is
\* retried, it does not fail the request)
C14_ConcurrentCreationsStored ==
    /\ [](\A w \in Workers :
            (creations[w].pc = "done" /\ creations[w].product_id # "")
            => /\ creations[w].status = 201
               /\ creations[w].product_id \in DOMAIN orders
               /\ \A x \in Workers \ {w} :
                     (creations[x].pc = "done" /\ creations[x].status = 201)
                     => creations[x].product_id # creations[w].product_id)
    /\ [][\A id \in DOMAIN orders : id \in DOMAIN orders' /\ orders'[id] = orders[id]]_vars


====
